---- MODULE Spec2Model ----
(***************************************************************************)
(* Real-time delivery layer of the messaging server: the SSE connection    *)
(* registry (SSEManager), the handshake session store (SSETokenManager)    *)
(* and the request handlers and timers of routes/api/sse.ts that drive     *)
(* them; and the stream controller of the web client, the hook             *)
(* useRealTimeMessaging, with the stores and indicators it feeds.          *)
(*                                                                         *)
(* A transport is one express Response handed to GET /events.  Transports  *)
(* are numbered in the order the requests arrive.  A frame is the pair of  *)
(* res.write calls that make one SSE event ("event: x\n", "data: {..}\n\n")*)
(* and is written or fails as a whole.  Whether a write throws is decided  *)
(* by the environment: every handler run takes the set `failing` of the    *)
(* transports whose writes throw during that run.  res.end() never throws. *)
(***************************************************************************)
EXTENDS Integers, Sequences, FiniteSets, TLC

\* ------------------------------------------------------------- bounds
MaxTransports == 3
MaxTokens == 3
MaxCalls == 3

UserList == <<"A", "B", "C">>
Users == {UserList[i] : i \in 1..Len(UserList)}
Transports == 1..MaxTransports
Tokens == 1..MaxTokens

\* ------------------------------------------------- program constants
GRACE_MS == 5000
CLEANUP_TIMEOUT_MS == 300000
SESSION_TTL_MS == 300000
BACKOFF_BASE_MS == 1000
BACKOFF_CAP_MS == 30000

\* The instants at which the model reads the clock: they give ages inside
\* the grace window (0), on its edge (5000), between it and the staleness
\* timeout (295001) and past the timeout and the session TTL (300001).
Instants == {0, GRACE_MS, CLEANUP_TIMEOUT_MS + 1}

NoUser == "-"
NoSession == [userId |-> NoUser, expires |-> -1]

VARIABLES
  connections,  \* SSEManager.connections: the Map's entries, in insertion order
  ended,        \* the transports on which end() has been called
  heartbeats,   \* the running heartbeat intervals, each a closure over (res, userId)
  listeners,    \* the registered req 'close'/'error' handlers, closures over (res, userId)
  nextRes,      \* number of transports handed to addConnection so far
  tokens,       \* SSETokenManager.tokens: token -> session (NoSession: not in the Map)
  nextTok,      \* number of session tokens minted so far
  now,          \* Date.now()
  last,         \* the last handler run: what ran, for whom, on which transport, how it ended
  client        \* one browser page: the state of its useRealTimeMessaging hook and stores

vars == <<connections, ended, heartbeats, listeners, nextRes, tokens, nextTok,
          now, last, client>>

\* ------------------------------------------------------ Map<string, V>
MapHas(conns, k) == \E i \in 1..Len(conns) : conns[i].userId = k

MapGet(conns, k) == conns[CHOOSE i \in 1..Len(conns) : conns[i].userId = k]

\* Mutant of MapSet: every set adds an entry, as a list would.
MapSetAppend(conns, k, v) == Append(conns, v)

MapSet(conns, k, v) ==
  IF MapHas(conns, k)
    THEN [i \in 1..Len(conns) |-> IF conns[i].userId = k THEN v ELSE conns[i]]
    ELSE Append(conns, v)

MapDelete(conns, k) == SelectSeq(conns, LAMBDA c : c.userId # k)

MapKeys(conns) == [i \in 1..Len(conns) |-> conns[i].userId]

\* ------------------------------------------------------------- frames
UserStatusFrame(userId, isOnline) ==
  [event |-> "user-status",
   data |-> [type |-> "user-status", userId |-> userId, isOnline |-> isOnline,
             timestamp |-> now]]

TypingFrame(senderId, isTyping) ==
  [event |-> "typing",
   data |-> [type |-> "typing", senderId |-> senderId, isTyping |-> isTyping,
             timestamp |-> now]]

NewMessageFrame(senderId) ==
  [event |-> "new-message",
   data |-> [type |-> "new-message", senderId |-> senderId, message |-> "msg",
             timestamp |-> now]]

MessageSentFrame ==
  [event |-> "message-sent",
   data |-> [type |-> "message-sent", message |-> "msg", timestamp |-> now]]

ConnectedFrame(userId) ==
  [event |-> "connected", data |-> [type |-> "connected", userId |-> userId]]

OnlineUsersFrame(users) ==
  [event |-> "online-users", data |-> [type |-> "online-users", users |-> users]]

HeartbeatFrame ==
  [event |-> "heartbeat", data |-> [type |-> "heartbeat", timestamp |-> now]]

\* ---------------------------------------------------------- SSEManager
\* The operators below thread S = [conns, ended, written] through one
\* handler run: the Map's entries, the ended transports, and per transport
\* the frames the run tried to write (ok: the write did not throw).

NoWrites == [r \in Transports |-> <<>>]

\* res.write of one frame; it throws iff res is in failing.
Write(S, res, frame, failing) ==
  [S EXCEPT !.written[res] = Append(@, [frame |-> frame, ok |-> res \notin failing])]

End(S, res) == [S EXCEPT !.ended = @ \cup {res}]

RECURSIVE BroadcastFrom(_, _, _, _, _)
BroadcastFrom(S, i, userId, isOnline, failing) ==
  IF i > Len(S.conns) THEN S
  ELSE LET c == S.conns[i]
           S1 == IF c.userId # userId
                   THEN Write(S, c.response, UserStatusFrame(userId, isOnline), failing)
                   ELSE S
       IN  BroadcastFrom(S1, i + 1, userId, isOnline, failing)

\* Mutant of IsDuplicate: no grace window, a newer stream always wins.
IsDuplicateNever(timeSinceLastSeen) == FALSE

\* the test of sse.ts line 30 on the existing connection's age
IsDuplicate(timeSinceLastSeen) == timeSinceLastSeen < GRACE_MS

\* Mutant of broadcastUserStatus: the first write that throws ends the loop.
RECURSIVE BroadcastUntilThrow(_, _, _, _, _)
BroadcastUntilThrow(S, i, userId, isOnline, failing) ==
  IF i > Len(S.conns) THEN S
  ELSE LET c == S.conns[i]
       IN  IF c.userId = userId
             THEN BroadcastUntilThrow(S, i + 1, userId, isOnline, failing)
             ELSE LET S1 == Write(S, c.response, UserStatusFrame(userId, isOnline), failing)
                  IN  IF c.response \in failing THEN S1
                      ELSE BroadcastUntilThrow(S1, i + 1, userId, isOnline, failing)

broadcastUserStatusAbort(S, userId, isOnline, failing) ==
  BroadcastUntilThrow(S, 1, userId, isOnline, failing)

\* Mutant of broadcastUserStatus: the user's own connection is not skipped.
broadcastUserStatusToAll(S, userId, isOnline, failing) ==
  BroadcastFrom(S, 1, NoUser, isOnline, failing)

\* Mutant of broadcastUserStatus: a peer whose write fails is dropped from
\* the registry.
broadcastUserStatusDropFailed(S, userId, isOnline, failing) ==
  LET S1 == BroadcastFrom(S, 1, userId, isOnline, failing)
  IN  [S1 EXCEPT !.conns =
         SelectSeq(@, LAMBDA c : c.userId = userId \/ c.response \notin failing)]

broadcastUserStatus(S, userId, isOnline, failing) ==
  BroadcastFrom(S, 1, userId, isOnline, failing)

\* Mutant of removeConnection: the transport is left open.
removeConnectionNoEnd(S, userId, failing) ==
  IF MapHas(S.conns, userId)
    THEN broadcastUserStatus([S EXCEPT !.conns = MapDelete(@, userId)],
                             userId, FALSE, failing)
    ELSE S

\* Mutant of removeConnection: the offline status is broadcast even when
\* the user has no connection.
removeConnectionAlwaysBroadcast(S, userId, failing) ==
  LET S2 == IF MapHas(S.conns, userId)
              THEN [End(S, MapGet(S.conns, userId).response)
                      EXCEPT !.conns = MapDelete(@, userId)]
              ELSE S
  IN  broadcastUserStatus(S2, userId, FALSE, failing)

removeConnection(S, userId, failing) ==
  IF MapHas(S.conns, userId)
    THEN LET connection == MapGet(S.conns, userId)
             S1 == End(S, connection.response)
             S2 == [S1 EXCEPT !.conns = MapDelete(@, userId)]
         IN  broadcastUserStatus(S2, userId, FALSE, failing)
    ELSE S

\* Mutant of addConnection: the transport being replaced is left open.
addConnectionLeakOld(S, userId, response, failing) ==
  LET has == MapHas(S.conns, userId)
      existing == MapGet(S.conns, userId)
      timeSinceLastSeen == now - existing.lastSeen
  IN  IF has /\ IsDuplicate(timeSinceLastSeen)
        THEN [st |-> End(S, response), ret |-> FALSE]
        ELSE LET S2 == [S EXCEPT !.conns =
                          MapSet(@, userId, [userId |-> userId, response |-> response,
                                             lastSeen |-> now])]
             IN  [st |-> broadcastUserStatus(S2, userId, TRUE, failing), ret |-> TRUE]

addConnection(S, userId, response, failing) ==
  LET has == MapHas(S.conns, userId)
      existing == MapGet(S.conns, userId)
      timeSinceLastSeen == now - existing.lastSeen
  IN  IF has /\ IsDuplicate(timeSinceLastSeen)
        THEN [st |-> End(S, response), ret |-> FALSE]
        ELSE LET S1 == IF has /\ existing.response # response
                         THEN End(S, existing.response) ELSE S
                 S2 == [S1 EXCEPT !.conns =
                          MapSet(@, userId, [userId |-> userId, response |-> response,
                                             lastSeen |-> now])]
             IN  [st |-> broadcastUserStatus(S2, userId, TRUE, failing), ret |-> TRUE]

\* Mutant of sendToUser: true is returned for a user with no connection.
sendToUserAbsentTrue(S, userId, frame, failing) ==
  IF MapHas(S.conns, userId)
    THEN LET connection == MapGet(S.conns, userId)
             S1 == Write(S, connection.response, frame, failing)
         IN  IF connection.response \notin failing
               THEN [st |-> [S1 EXCEPT !.conns =
                               MapSet(@, userId, [connection EXCEPT !.lastSeen = now])],
                     ret |-> TRUE]
               ELSE [st |-> removeConnection(S1, userId, failing), ret |-> FALSE]
    ELSE [st |-> S, ret |-> TRUE]

\* Mutant of sendToUser: a failed write only returns false.
sendToUserKeepOnFailure(S, userId, frame, failing) ==
  IF MapHas(S.conns, userId)
    THEN LET connection == MapGet(S.conns, userId)
             S1 == Write(S, connection.response, frame, failing)
         IN  IF connection.response \notin failing
               THEN [st |-> [S1 EXCEPT !.conns =
                               MapSet(@, userId, [connection EXCEPT !.lastSeen = now])],
                     ret |-> TRUE]
               ELSE [st |-> S1, ret |-> FALSE]
    ELSE [st |-> S, ret |-> FALSE]

sendToUser(S, userId, frame, failing) ==
  IF MapHas(S.conns, userId)
    THEN LET connection == MapGet(S.conns, userId)
             S1 == Write(S, connection.response, frame, failing)
         IN  IF connection.response \notin failing
               THEN [st |-> [S1 EXCEPT !.conns =
                               MapSet(@, userId, [connection EXCEPT !.lastSeen = now])],
                     ret |-> TRUE]
               ELSE [st |-> removeConnection(S1, userId, failing), ret |-> FALSE]
    ELSE [st |-> S, ret |-> FALSE]

isUserOnline(userId) == MapHas(connections, userId)

getOnlineUsers(conns) == MapKeys(conns)

\* Mutant of notifyTyping: the typing event is echoed to the sender.
notifyTypingEcho(S, senderId, recipientId, isTyping, failing) ==
  LET S1 == sendToUser(S, recipientId, TypingFrame(senderId, isTyping), failing).st
  IN  sendToUser(S1, senderId, TypingFrame(senderId, isTyping), failing).st

notifyTyping(S, senderId, recipientId, isTyping, failing) ==
  sendToUser(S, recipientId, TypingFrame(senderId, isTyping), failing).st

notifyNewMessage(S, senderId, recipientId, failing) ==
  LET S1 == sendToUser(S, recipientId, NewMessageFrame(senderId), failing).st
  IN  sendToUser(S1, senderId, MessageSentFrame, failing).st

\* The Map iterator visits the entries in insertion order; removeConnection
\* deletes only the entry being visited, so the loop visits the entries the
\* Map held when it started.
RECURSIVE CleanupFrom(_, _, _, _)
CleanupFrom(S, entries, i, failing) ==
  IF i > Len(entries) THEN S
  ELSE LET S1 == IF now - entries[i].lastSeen > CLEANUP_TIMEOUT_MS
                   THEN removeConnection(S, entries[i].userId, failing)
                   ELSE S
       IN  CleanupFrom(S1, entries, i + 1, failing)

\* Mutant of cleanupConnections: a connection is swept at the instant its
\* age reaches the timeout.
RECURSIVE CleanupFromEager(_, _, _, _)
CleanupFromEager(S, entries, i, failing) ==
  IF i > Len(entries) THEN S
  ELSE LET S1 == IF now - entries[i].lastSeen >= CLEANUP_TIMEOUT_MS
                   THEN removeConnection(S, entries[i].userId, failing)
                   ELSE S
       IN  CleanupFromEager(S1, entries, i + 1, failing)

cleanupConnectionsEager(S, failing) == CleanupFromEager(S, S.conns, 1, failing)

cleanupConnections(S, failing) == CleanupFrom(S, S.conns, 1, failing)

\* ----------------------------------------------------- SSETokenManager
createSession(tok, userId) ==
  [tokens EXCEPT ![tok] = [userId |-> userId, expires |-> now + SESSION_TTL_MS]]

\* Mutant of getSession: a resolved session is consumed.
getSessionOneShot(tok) ==
  LET session == IF tok \in Tokens THEN tokens[tok] ELSE NoSession
  IN  IF session = NoSession \/ session.expires < now
        THEN [session |-> NoSession,
              tokens |-> IF session # NoSession
                           THEN [tokens EXCEPT ![tok] = NoSession] ELSE tokens]
        ELSE [session |-> session, tokens |-> [tokens EXCEPT ![tok] = NoSession]]

\* Mutant of getSession: the expiry is not looked at.
getSessionNoExpiry(tok) ==
  LET session == IF tok \in Tokens THEN tokens[tok] ELSE NoSession
  IN  [session |-> session, tokens |-> tokens]

\* getSession: [session, tokens after the call]
getSession(tok) ==
  LET session == IF tok \in Tokens THEN tokens[tok] ELSE NoSession
  IN  IF session = NoSession \/ session.expires < now
        THEN [session |-> NoSession,
              tokens |-> IF session # NoSession
                           THEN [tokens EXCEPT ![tok] = NoSession] ELSE tokens]
        ELSE [session |-> session, tokens |-> tokens]

\* Mutant of cleanupExpired: a session is swept at the instant it expires.
cleanupExpiredEager(toks) ==
  [t \in Tokens |-> IF toks[t] # NoSession /\ toks[t].expires <= now
                      THEN NoSession ELSE toks[t]]

\* Mutant of cleanupExpired: nothing is swept.
cleanupExpiredKeepAll(toks) == toks

cleanupExpired(toks) ==
  [t \in Tokens |-> IF toks[t] # NoSession /\ toks[t].expires < now
                      THEN NoSession ELSE toks[t]]

\* ----------------------------------------------- the client controller
\* One page of the web client: the refs and state of useRealTimeMessaging,
\* the credentials of the auth store, the online store and the typing flags
\* of useTypingStatus.  A connection attempt is one run of connectRef.current
\* that passed its guard; attempts are numbered in the order they start.  The
\* EventSource an attempt creates, and the reconnect timer it schedules, carry
\* the attempt's number.  Every closure created by an attempt sees the token,
\* the user and the reconnectAttempts of the render whose connectRef.current
\* was called: `attempts` below is that captured count.
\*
\*   root                 how the page is rendered: a legacy root re-renders
\*                        synchronously on a setState made in a timer callback,
\*                        a concurrent root batches it until the callback ends
\*   token                TRUE: the auth store holds a token and a user
\*   eventSourceRef       the attempt whose EventSource the ref holds (0: null)
\*   isConnectingRef, isConnected, reconnectAttempts
\*   reconnectTimeoutRef  the attempt whose timer handle the ref holds (0: none)
\*   fetches              the attempts awaiting the response of POST /session
\*   sources              the EventSources created so far
\*   timers               the reconnect timers that are set and have not fired
\*   calls                the number of attempts started so far
\*   onlineUsers          the online store
\*   typing               the peers whose useTypingStatus flag is true
\*   transport            the server's transport of the page's stream (0: none)
\*   inbox                the frames written to that transport and not yet
\*                        dispatched by the page's EventSource, oldest first
\*   asked                the page's GET /online requests on their way to the
\*                        server
\*   answers              the responses to them on their way to the page
\*   failures, cut, ran   history: the failures since the last open stream,
\*                        the last attempt started before the last explicit
\*                        disconnect(), and the last step of the page
Roots == {"legacy", "concurrent"}
Peers == Users \ {"A"}

Mounted(root) ==
  [root |-> root, user |-> "A", token |-> FALSE, eventSourceRef |-> 0, isConnectingRef |-> FALSE,
   isConnected |-> FALSE, reconnectAttempts |-> 0, reconnectTimeoutRef |-> 0,
   fetches |-> {}, sources |-> {}, timers |-> {}, calls |-> 0,
   onlineUsers |-> {}, typing |-> {},
   transport |-> 0, inbox |-> <<>>, asked |-> 0, answers |-> {},
   failures |-> 0, cut |-> 0,
   ran |-> [op |-> "mount", id |-> 0, ret |-> "-", delay |-> 0, by |-> "-"]]

RECURSIVE Pow2(_)
Pow2(n) == IF n = 0 THEN 1 ELSE 2 * Pow2(n - 1)

Min(a, b) == IF a < b THEN a ELSE b

\* Math.min(1000 * Math.pow(2, reconnectAttempts), 30000)
BackoffDelay(reconnectAttempts) ==
  Min(BACKOFF_BASE_MS * Pow2(reconnectAttempts), BACKOFF_CAP_MS)

Live(c) == {s \in c.sources : s.readyState # "closed"}

\* EventSource.close() on the source of attempt id
CloseSource(c, id) ==
  [c EXCEPT !.sources = {IF s.id = id THEN [s EXCEPT !.readyState = "closed"] ELSE s
                           : s \in @}]

\* setTimeout(..., delay) assigned to reconnectTimeoutRef.current
SetReconnectTimeout(c, id, attempts, by) ==
  [c EXCEPT !.timers = @ \cup {[id |-> id, delay |-> BackoffDelay(attempts), by |-> by]},
            !.reconnectTimeoutRef = id]

\* connectRef.current() of the render that captured `attempts`, up to the
\* await of the session request
connectRefCurrent(c, attempts) ==
  IF ~c.token \/ c.eventSourceRef # 0 \/ c.isConnectingRef
    THEN c
    ELSE [c EXCEPT !.isConnectingRef = TRUE,
                   !.calls = @ + 1,
                   !.fetches = @ \cup {[id |-> c.calls + 1, attempts |-> attempts,
                                          user |-> c.user]}]

\* the rest of the try block after a good session response
createEventSource(c, f) ==
  [c EXCEPT !.fetches = @ \ {f},
            !.sources = @ \cup {[id |-> f.id, attempts |-> f.attempts,
                                 user |-> f.user, readyState |-> "connecting"]},
            !.eventSourceRef = f.id]

\* the catch block; token && user of the closure are those that passed the guard
connectCatch(c, f) ==
  SetReconnectTimeout([c EXCEPT !.fetches = @ \ {f},
                                !.isConnected = FALSE,
                                !.isConnectingRef = FALSE],
                      f.id, f.attempts, "catch")

onopen(c, s) ==
  [c EXCEPT !.sources = (@ \ {s}) \cup {[s EXCEPT !.readyState = "open"]},
            !.isConnected = TRUE,
            !.reconnectAttempts = 0,
            !.isConnectingRef = FALSE]

\* Mutant of onerror: the connected flag is left as it was.
onerrorKeepsFlag(c, s) ==
  SetReconnectTimeout(CloseSource([c EXCEPT !.isConnectingRef = FALSE], s.id),
                      s.id, s.attempts, "onerror")

onerror(c, s) ==
  SetReconnectTimeout(CloseSource([c EXCEPT !.isConnected = FALSE,
                                            !.isConnectingRef = FALSE], s.id),
                      s.id, s.attempts, "onerror")

\* the callback of a reconnect timer
reconnectTimeout(c, t) ==
  LET c1 == [c EXCEPT !.timers = @ \ {t}, !.reconnectAttempts = @ + 1]
  IN  connectRefCurrent(c1, IF c.root = "legacy" THEN c1.reconnectAttempts
                            ELSE c.reconnectAttempts)

disconnect(c) ==
  LET c1 == IF c.eventSourceRef # 0
              THEN [CloseSource(c, c.eventSourceRef) EXCEPT !.eventSourceRef = 0]
              ELSE c
  IN  [c1 EXCEPT !.timers = {t \in @ : t.id # c.reconnectTimeoutRef},
                 !.isConnected = FALSE,
                 !.reconnectAttempts = 0,
                 !.isConnectingRef = FALSE]

\* the auto-connect effect, run after a render in which token or user?.id
\* changed
useEffect(c) ==
  IF ~c.token
    THEN IF c.eventSourceRef # 0 THEN disconnect(c) ELSE c
    ELSE IF c.eventSourceRef = 0 /\ ~c.isConnectingRef
           THEN connectRefCurrent(c, c.reconnectAttempts)
           ELSE c

\* the online store and the typing flags
setUserOnline(c, userId) == [c EXCEPT !.onlineUsers = @ \cup {userId}]

setUserOffline(c, userId) == [c EXCEPT !.onlineUsers = @ \ {userId}]

setOnlineUsers(c, userIds) == [c EXCEPT !.onlineUsers = userIds]

onUserStatusChange(c, userId, isOnline) ==
  IF isOnline THEN setUserOnline(c, userId) ELSE setUserOffline(c, userId)

\* the 'user-typing' listener of the useTypingStatus(senderId) instance
handleTyping(c, senderId, isTyping) ==
  [c EXCEPT !.typing = IF isTyping THEN @ \cup {senderId} ELSE @ \ {senderId}]

\* what MessageComposer shows for the selected peer
StatusText(c, userId) ==
  IF userId \in c.typing THEN "typing..."
  ELSE IF userId \in c.onlineUsers THEN "Online" ELSE "Offline"

\* ------------------------------------------------------------ handlers
\* The state a handler run starts from.
Start == [conns |-> connections, ended |-> ended, written |-> NoWrites]

Registered == {connections[i].response : i \in 1..Len(connections)}

Commit(S) ==
  /\ connections' = S.conns
  /\ ended' = S.ended

\* The transports whose writes threw during a run.  A handler run is taken
\* once per outcome: its input `failing` names exactly these.
Thrown(S) ==
  {r \in Transports : \E i \in 1..Len(S.written[r]) : ~S.written[r][i].ok}

Closure(res, userId) == [res |-> res, userId |-> userId]

Ran(op, userId, res, ret) == [op |-> op, userId |-> userId, res |-> res, ret |-> ret]

\* The server has started and the clients of the users in `holders` have each
\* completed POST /session at time 0: token t belongs to holders[t].
InitWith(holders) ==
  /\ connections = <<>>
  /\ ended = {}
  /\ heartbeats = {}
  /\ listeners = {}
  /\ nextRes = 0
  /\ tokens = [t \in Tokens |->
                 IF t <= Len(holders)
                   THEN [userId |-> holders[t], expires |-> 0 + SESSION_TTL_MS]
                   ELSE NoSession]
  /\ nextTok = Len(holders)
  /\ now = 0
  /\ last = Ran("init", NoUser, 0, "-")
  /\ client = Mounted("none")

\* POST /session with a valid bearer token of userId
Session(userId) ==
  /\ nextTok < MaxTokens
  /\ nextTok' = nextTok + 1
  /\ tokens' = createSession(nextTok + 1, userId)
  /\ last' = Ran("session", userId, 0, "-")
  /\ UNCHANGED <<client, connections, ended, heartbeats, listeners, nextRes, now>>

\* Mutant of EventsRun: the snapshot is taken before the admission.
EventsRunSnapshotFirst(tok, failing) ==
  LET got == getSession(tok)
      userId == got.session.userId
      res == nextRes + 1
      added == addConnection(Start, userId, res, failing)
      S1 == Write(added.st, res, ConnectedFrame(userId), failing)
      S2 == Write(S1, res, OnlineUsersFrame(getOnlineUsers(Start.conns)), failing)
  IN  IF tok = 0 \/ got.session = NoSession
        THEN [status |-> 401, userId |-> NoUser, res |-> 0, ret |-> FALSE,
              st |-> Start, tokens |-> got.tokens, started |-> FALSE]
        ELSE IF ~added.ret
          THEN [status |-> 200, userId |-> userId, res |-> res, ret |-> FALSE,
                st |-> added.st, tokens |-> got.tokens, started |-> FALSE]
          ELSE IF res \in failing
            THEN [status |-> 200, userId |-> userId, res |-> res, ret |-> TRUE,
                  st |-> S1, tokens |-> got.tokens, started |-> FALSE]
            ELSE [status |-> 200, userId |-> userId, res |-> res, ret |-> TRUE,
                  st |-> S2, tokens |-> got.tokens, started |-> TRUE]

\* GET /events?session=tok on a fresh transport; tok = 0 stands for a missing
\* token.  status 401: rejected before the registry is touched; started: the
\* heartbeat interval and the close/error handlers were registered.
EventsRun(tok, failing) ==
  LET got == getSession(tok)
      userId == got.session.userId
      res == nextRes + 1
      added == addConnection(Start, userId, res, failing)
      S1 == Write(added.st, res, ConnectedFrame(userId), failing)
      S2 == Write(S1, res, OnlineUsersFrame(getOnlineUsers(S1.conns)), failing)
  IN  IF tok = 0 \/ got.session = NoSession
        THEN [status |-> 401, userId |-> NoUser, res |-> 0, ret |-> FALSE,
              st |-> Start, tokens |-> got.tokens, started |-> FALSE]
        ELSE IF ~added.ret
          THEN [status |-> 200, userId |-> userId, res |-> res, ret |-> FALSE,
                st |-> added.st, tokens |-> got.tokens, started |-> FALSE]
          ELSE IF res \in failing
            \* the write of `connected` throws and the handler ends there
            THEN [status |-> 200, userId |-> userId, res |-> res, ret |-> TRUE,
                  st |-> S1, tokens |-> got.tokens, started |-> FALSE]
            ELSE [status |-> 200, userId |-> userId, res |-> res, ret |-> TRUE,
                  st |-> S2, tokens |-> got.tokens, started |-> TRUE]

Events(tok, failing) ==
  LET run == EventsRun(tok, failing)
  IN  /\ run.status = 401 \/ nextRes < MaxTransports
      /\ failing = Thrown(run.st)
      /\ nextRes' = IF run.status = 401 THEN nextRes ELSE run.res
      /\ tokens' = run.tokens
      /\ Commit(run.st)
      /\ heartbeats' = IF run.started
                         THEN heartbeats \cup {Closure(run.res, run.userId)}
                         ELSE heartbeats
      /\ listeners' = IF run.started
                        THEN listeners \cup {Closure(run.res, run.userId)}
                        ELSE listeners
      /\ last' = Ran("events", run.userId, run.res,
                     IF run.status = 401 THEN "401"
                     ELSE IF ~run.ret THEN "rejected"
                     ELSE IF isUserOnline(run.userId) THEN "replaced"
                     ELSE "inserted")
      /\ UNCHANGED <<client, nextTok, now>>

\* one firing of a stream's heartbeat interval
\* Mutant of HeartbeatRun: a failed heartbeat only stops the timer.
HeartbeatRunIgnoreFailure(h, failing) ==
  [st |-> Write(Start, h.res, HeartbeatFrame, failing), ok |-> h.res \notin failing]

HeartbeatRun(h, failing) ==
  LET S1 == Write(Start, h.res, HeartbeatFrame, failing)
  IN  IF h.res \notin failing
        THEN [st |-> S1, ok |-> TRUE]
        ELSE [st |-> removeConnection(S1, h.userId, failing), ok |-> FALSE]

Heartbeat(h, failing) ==
  LET run == HeartbeatRun(h, failing)
  IN  /\ h \in heartbeats
      /\ failing = Thrown(run.st)
      /\ heartbeats' = IF run.ok THEN heartbeats ELSE heartbeats \ {h}
      /\ Commit(run.st)
      /\ last' = Ran("heartbeat", h.userId, h.res, IF run.ok THEN "ok" ELSE "failed")
      /\ UNCHANGED <<client, listeners, nextRes, tokens, nextTok, now>>

\* req.on('close'): emitted once per request
CloseEvent(l, failing) ==
  LET S == removeConnection(Start, l.userId, failing)
  IN  /\ l \in listeners
      /\ failing = Thrown(S)
      /\ heartbeats' = heartbeats \ {l}
      /\ listeners' = listeners \ {l}
      /\ Commit(S)
      /\ last' = Ran("close", l.userId, l.res,
                     IF isUserOnline(l.userId) THEN "removed" ELSE "absent")
      /\ UNCHANGED <<client, nextRes, tokens, nextTok, now>>

\* req.on('error'): emitted before 'close'
ErrorEvent(l, failing) ==
  LET S == removeConnection(Start, l.userId, failing)
  IN  /\ l \in listeners
      /\ failing = Thrown(S)
      /\ heartbeats' = heartbeats \ {l}
      /\ Commit(S)
      /\ last' = Ran("error", l.userId, l.res,
                     IF isUserOnline(l.userId) THEN "removed" ELSE "absent")
      /\ UNCHANGED <<client, listeners, nextRes, tokens, nextTok, now>>

\* Mutant of TypingRun: the response reports whether the event was sent.
TypingRunReportsDelivery(senderId, recipientId, isTyping, failing) ==
  LET sent == sendToUser(Start, recipientId, TypingFrame(senderId, isTyping), failing)
  IN  [st |-> sent.st, response |-> IF sent.ret THEN "success" ELSE "error"]

\* POST /typing with a valid bearer token of senderId and a well-formed body:
\* the registry after notifyTyping and the response sent
TypingRun(senderId, recipientId, isTyping, failing) ==
  [st |-> notifyTyping(Start, senderId, recipientId, isTyping, failing),
   response |-> "success"]

Typing(senderId, recipientId, isTyping, failing) ==
  LET S == TypingRun(senderId, recipientId, isTyping, failing).st
  IN  /\ failing = Thrown(S)
      /\ Commit(S)
      /\ last' = Ran("typing", recipientId, 0,
                     IF ~isUserOnline(recipientId) THEN "offline"
                     ELSE IF MapHas(S.conns, recipientId) THEN "sent"
                     ELSE "failed")
      /\ UNCHANGED <<client, heartbeats, listeners, nextRes, tokens, nextTok, now>>

\* Mutant of PostMessageRun: the request fails when the recipient was not
\* reached.
PostMessageRunNeedsDelivery(senderId, recipientId, failing) ==
  IF senderId = recipientId
    THEN [st |-> Start, status |-> 400, data |-> "-"]
    ELSE LET sent == sendToUser(Start, recipientId, NewMessageFrame(senderId), failing)
         IN  [st |-> sendToUser(sent.st, senderId, MessageSentFrame, failing).st,
              status |-> IF sent.ret THEN 201 ELSE 500,
              data |-> IF sent.ret THEN "msg" ELSE "-"]

\* POST /messages with a valid body: 400 for a message to oneself; otherwise
\* the message is stored, notifyNewMessage runs and the record is returned
PostMessageRun(senderId, recipientId, failing) ==
  IF senderId = recipientId
    THEN [st |-> Start, status |-> 400, data |-> "-"]
    ELSE [st |-> notifyNewMessage(Start, senderId, recipientId, failing),
          status |-> 201, data |-> "msg"]

PostMessage(senderId, recipientId, failing) ==
  LET run == PostMessageRun(senderId, recipientId, failing)
      S == run.st
  IN  /\ failing = Thrown(S)
      /\ Commit(S)
      /\ last' = Ran("message", recipientId, 0,
                     IF run.status = 400 THEN "400"
                     ELSE IF isUserOnline(senderId) /\ isUserOnline(recipientId)
                       THEN "both" ELSE "201")
      /\ UNCHANGED <<client, heartbeats, listeners, nextRes, tokens, nextTok, now>>

\* the 2-minute interval: cleanupConnections(); cleanupExpired()
Sweep(failing) ==
  LET S == cleanupConnections(Start, failing)
  IN  /\ failing = Thrown(S)
      /\ Commit(S)
      /\ tokens' = cleanupExpired(tokens)
      /\ last' = Ran("sweep", NoUser, 0,
                     IF S.conns = connections THEN "clean" ELSE "swept")
      /\ UNCHANGED <<client, heartbeats, listeners, nextRes, nextTok, now>>

\* the clock moves on to a later instant
Tick(t) ==
  /\ t > now
  /\ now' = t
  /\ last' = Ran("tick", NoUser, 0, "-")
  /\ UNCHANGED <<client, connections, ended, heartbeats, listeners, nextRes, tokens, nextTok>>

\* The sets of transports whose writes may throw during one handler run.
Failing == SUBSET Registered

\* The same for a run that writes to one user's transport and to nothing else
\* unless that write throws.
PushFailing(userId) ==
  IF MapHas(connections, userId)
    THEN {{}} \cup {f \in Failing : MapGet(connections, userId).response \in f}
    ELSE {{}}

\* the stream handlers and the timers of the server
Streams ==
  \/ \E tok \in 0..MaxTokens, f \in SUBSET (Registered \cup {nextRes + 1}) : Events(tok, f)
  \/ \E h \in heartbeats : \E f \in SUBSET (Registered \cup {h.res}) : Heartbeat(h, f)
  \/ \E l \in listeners, f \in Failing : CloseEvent(l, f)
  \/ \E l \in listeners, f \in Failing : ErrorEvent(l, f)
  \/ \E f \in Failing : Sweep(f)

\* Users A and B stream; user C never connects and is the one who types (the
\* sender and isTyping reach the typing frame only); the clock moves.
Init == InitWith(<<"A", "B">>)

Next ==
  \/ Streams
  \/ \E r \in Users : \E f \in PushFailing(r) : Typing("C", r, TRUE, f)
  \/ \E t \in Instants : Tick(t)

Spec == Init /\ [][Next]_vars

\* All three users stream and type to each other, within one instant.
InitCrowd == InitWith(UserList)

NextCrowd ==
  \/ Streams
  \/ \E s \in Users, r \in Users, b \in BOOLEAN :
        \E f \in PushFailing(r) : Typing(s, r, b, f)

SpecCrowd == InitCrowd /\ [][NextCrowd]_vars

\* Users A and B stream and all three users send each other messages, within
\* one instant.
NextPosts ==
  \/ \E tok \in 0..MaxTokens, f \in SUBSET (Registered \cup {nextRes + 1}) : Events(tok, f)
  \/ \E l \in listeners, f \in Failing : CloseEvent(l, f)
  \/ \E s \in Users, r \in Users, f \in Failing : PostMessage(s, r, f)

SpecPosts == Init /\ [][NextPosts]_vars

\* No session exists at the start: users A and B request session tokens, open
\* streams with them while the clock moves up to and past the expiry of the
\* sessions.
SessionInstants == {0, SESSION_TTL_MS, SESSION_TTL_MS + 1}

InitFresh == InitWith(<<>>)

NextFresh ==
  \/ \E u \in {"A", "B"} : Session(u)
  \/ \E tok \in 0..MaxTokens : Events(tok, {})
  \/ \E f \in Failing : Sweep(f)
  \/ \E t \in SessionInstants : Tick(t)

SpecFresh == InitFresh /\ [][NextFresh]_vars

\* ------------------------------------------------- the page's handlers
srv == <<connections, ended, heartbeats, listeners, nextRes, tokens, nextTok, now, last>>

\* The page after a step that took it to c: op ran for attempt id.  ret is
\* "started" when the step started a connection attempt, delay the reconnect
\* delay it set, by the handler that had set the timer which fired or the
\* peer an event was about.
After(c, op, id, delay, by) ==
  [c EXCEPT !.ran = [op |-> op, id |-> id,
                     ret |-> IF c.calls > client.calls THEN "started" ELSE "nothing",
                     delay |-> delay, by |-> by]]

\* login() of the auth store, the render and the effect that follow it
Login ==
  LET c == useEffect([client EXCEPT !.token = TRUE])
  IN  /\ ~client.token
      /\ c.calls <= MaxCalls
      /\ client' = After(c, "login", 0, 0, "-")
      /\ UNCHANGED srv

\* logout() of the auth store, the render and the effect that follow it
Logout ==
  LET c == useEffect([client EXCEPT !.token = FALSE, !.failures = 0])
  IN  /\ client.token
      /\ client' = After(c, "logout", 0, 0, "-")
      /\ UNCHANGED srv

\* connect() of the hook's result
ConnectCall ==
  LET c == connectRefCurrent(client, client.reconnectAttempts)
  IN  /\ c.calls <= MaxCalls
      /\ client' = After(c, "connect", 0, 0, "-")
      /\ UNCHANGED srv

\* disconnect() of the hook's result
DisconnectCall ==
  LET c == disconnect([client EXCEPT !.cut = client.calls, !.failures = 0])
  IN  /\ client' = After(c, "disconnect", 0, 0, "-")
      /\ UNCHANGED srv

\* the session request of attempt f settles: ok, or with a non-OK status, a
\* malformed body or a network error
SessionResponse(f, ok) ==
  /\ f \in client.fetches
  /\ client' = IF ok
                 THEN After(createEventSource(client, f), "session", f.id, 0, "-")
                 ELSE After(connectCatch([client EXCEPT !.failures = @ + 1], f),
                            "catch", f.id, BackoffDelay(f.attempts), "-")
  /\ UNCHANGED srv

StreamOpen(s) ==
  /\ s \in client.sources
  /\ s.readyState = "connecting"
  /\ client' = After(onopen([client EXCEPT !.failures = 0], s), "onopen", s.id, 0, "-")
  /\ UNCHANGED srv

StreamError(s) ==
  /\ s \in Live(client)
  /\ client' = After(onerror([client EXCEPT !.failures = @ + 1], s),
                     "onerror", s.id, BackoffDelay(s.attempts), "-")
  /\ UNCHANGED srv

ReconnectTimeout(t) ==
  LET c == reconnectTimeout(client, t)
  IN  /\ t \in client.timers
      /\ c.calls <= MaxCalls
      /\ client' = After(c, "timeout", t.id, 0, t.by)
      /\ UNCHANGED srv

\* events arriving on an open stream
Opened(c) == {s \in c.sources : s.readyState = "open"}

UserStatusEvent(userId, isOnline) ==
  /\ Opened(client) # {}
  /\ client' = After(onUserStatusChange(client, userId, isOnline),
                     IF isOnline THEN "user-online" ELSE "user-offline", 0, 0, userId)
  /\ UNCHANGED srv

TypingEvent(senderId, isTyping) ==
  /\ Opened(client) # {}
  /\ client' = After(handleTyping(client, senderId, isTyping), "typing", 0, 0, senderId)
  /\ UNCHANGED srv

OnlineUsersEvent(userIds) ==
  /\ Opened(client) # {}
  /\ client' = After(setOnlineUsers(client, userIds), "online-users", 0, 0, "-")
  /\ UNCHANGED srv

\* The page is loaded without credentials; the user logs in and out, the
\* hook's connect and disconnect are called, session requests settle, streams
\* open and fail and timers fire, in any order.
InitClient ==
  /\ connections = <<>>
  /\ ended = {}
  /\ heartbeats = {}
  /\ listeners = {}
  /\ nextRes = 0
  /\ tokens = [t \in Tokens |-> NoSession]
  /\ nextTok = 0
  /\ now = 0
  /\ last = Ran("init", NoUser, 0, "-")
  /\ client \in {Mounted(root) : root \in Roots}

NextClient ==
  \/ Login
  \/ Logout
  \/ ConnectCall
  \/ DisconnectCall
  \/ \E f \in client.fetches, ok \in BOOLEAN : SessionResponse(f, ok)
  \/ \E s \in client.sources : StreamOpen(s)
  \/ \E s \in client.sources : StreamError(s)
  \/ \E t \in client.timers : ReconnectTimeout(t)

SpecClient == InitClient /\ [][NextClient]_vars

\* The page as the application drives it: RealTimeProvider never calls the
\* hook's connect or disconnect, so attempts start from the effect and from
\* reconnect timers only.
NextApp ==
  \/ Login
  \/ Logout
  \/ \E f \in client.fetches, ok \in BOOLEAN : SessionResponse(f, ok)
  \/ \E s \in client.sources : StreamOpen(s)
  \/ \E s \in client.sources : StreamError(s)
  \/ \E t \in client.timers : ReconnectTimeout(t)

SpecApp == InitClient /\ [][NextApp]_vars

\* login(user, token) of the auth store while another user is logged in,
\* the render and the effect that follow it (user?.id is a dependency)
SwitchUser(userId) ==
  LET c == useEffect([client EXCEPT !.user = userId])
  IN  /\ client.token
      /\ userId # client.user
      /\ c.calls <= MaxCalls
      /\ client' = After(c, "switch", 0, 0, "-")
      /\ UNCHANGED srv

NextSwitch ==
  \/ Login
  \/ Logout
  \/ \E f \in client.fetches, ok \in BOOLEAN : SessionResponse(f, ok)
  \/ \E s \in client.sources : StreamOpen(s)
  \/ \E s \in client.sources : StreamError(s)
  \/ \E t \in client.timers : ReconnectTimeout(t)
  \/ \E userId \in Users : SwitchUser(userId)

SpecSwitch == InitClient /\ [][NextSwitch]_vars

\* The user logs in once and stays logged in; the stream opens, delivers
\* presence and typing events of the peers, and fails.
NextPresence ==
  \/ Login
  \/ \E f \in client.fetches : SessionResponse(f, TRUE)
  \/ \E s \in client.sources : StreamOpen(s)
  \/ \E s \in client.sources : StreamError(s)
  \/ \E u \in Peers, b \in BOOLEAN : UserStatusEvent(u, b)
  \/ \E u \in Peers, b \in BOOLEAN : TypingEvent(u, b)
  \/ \E us \in SUBSET Peers : OnlineUsersEvent(us)

SpecPresence == InitClient /\ [][NextPresence]_vars

\* the names the hook's listeners are registered for
EventNames == {"message", "connected", "online-users", "user-status",
               "new-message", "typing"}

\* the listener of `event` runs on an event whose data JSON.parse rejects:
\* the 'message' listener catches the error, the 'connected' listener calls
\* onConnected without reading the data (GET /online is sent), the others
\* throw before any callback
DispatchUndecodable(c, event) ==
  IF event = "connected" THEN [c EXCEPT !.asked = @ + 1] ELSE c

UndecodableEvent(event) ==
  /\ Opened(client) # {}
  /\ client.asked < MaxCalls
  /\ client' = After(DispatchUndecodable(client, event), "undecodable", 0, 0, event)
  /\ UNCHANGED srv

\* The page of SpecPresence on a stream that also carries events whose
\* payload is not JSON.
NextDecode ==
  \/ Login
  \/ \E f \in client.fetches : SessionResponse(f, TRUE)
  \/ \E s \in client.sources : StreamOpen(s)
  \/ \E s \in client.sources : StreamError(s)
  \/ \E u \in Peers, b \in BOOLEAN : UserStatusEvent(u, b)
  \/ \E u \in Peers, b \in BOOLEAN : TypingEvent(u, b)
  \/ \E us \in SUBSET Peers : OnlineUsersEvent(us)
  \/ \E event \in EventNames : UndecodableEvent(event)

SpecDecode == InitClient /\ [][NextDecode]_vars

\* ------------------------------------------- the page and the server
\* The page belongs to user A.  What the server writes to the transport of
\* A's stream reaches the page in the order written; the page's GET /online
\* travels on a connection of its own, so a response and the stream's frames
\* arrive in either order.  No write throws here.
PageUser == "A"

SeqToSet(seq) == {seq[i] : i \in 1..Len(seq)}

\* the frames a run wrote to a transport
FramesTo(S, transport) ==
  IF transport = 0 THEN <<>>
  ELSE [i \in 1..Len(S.written[transport]) |-> S.written[transport][i].frame]

\* GET /events of a user; the frames for the page join its stream
SyncEvents(tok) ==
  LET run == EventsRun(tok, {})
      transport == IF run.userId = PageUser /\ run.ret THEN run.res
                   ELSE client.transport
  IN  /\ run.status = 200
      /\ nextRes < MaxTransports
      /\ nextRes' = run.res
      /\ tokens' = run.tokens
      /\ Commit(run.st)
      /\ heartbeats' = IF run.started
                         THEN heartbeats \cup {Closure(run.res, run.userId)}
                         ELSE heartbeats
      /\ listeners' = IF run.started
                        THEN listeners \cup {Closure(run.res, run.userId)}
                        ELSE listeners
      /\ last' = Ran("events", run.userId, run.res,
                     IF ~run.ret THEN "rejected"
                     ELSE IF isUserOnline(run.userId) THEN "replaced"
                     ELSE "inserted")
      /\ client' = [client EXCEPT !.transport = transport,
                                  !.inbox = @ \o FramesTo(run.st, transport)]
      /\ UNCHANGED <<nextTok, now>>

\* the stream of a user other than the page's closes
SyncClose(l) ==
  LET S == removeConnection(Start, l.userId, {})
  IN  /\ l \in listeners
      /\ l.userId # PageUser
      /\ heartbeats' = heartbeats \ {l}
      /\ listeners' = listeners \ {l}
      /\ Commit(S)
      /\ last' = Ran("close", l.userId, l.res,
                     IF isUserOnline(l.userId) THEN "removed" ELSE "absent")
      /\ client' = [client EXCEPT !.inbox = @ \o FramesTo(S, client.transport)]
      /\ UNCHANGED <<nextRes, tokens, nextTok, now>>

\* the page's EventSource dispatches the oldest frame of the stream:
\* connected -> onConnected (GET /online is sent), online-users ->
\* setOnlineUsers, user-status -> onUserStatusChange
Dispatch(c, frame) ==
  IF frame.event = "connected" THEN [c EXCEPT !.asked = @ + 1]
  ELSE IF frame.event = "online-users"
    THEN setOnlineUsers(c, SeqToSet(frame.data.users))
  ELSE IF frame.event = "user-status"
    THEN onUserStatusChange(c, frame.data.userId, frame.data.isOnline)
  ELSE c

Receive ==
  /\ client.inbox # <<>>
  /\ client' = After([Dispatch(client, Head(client.inbox)) EXCEPT !.inbox = Tail(@)],
                     Head(client.inbox).event, 0, 0, "-")
  /\ UNCHANGED srv

\* GET /online is handled by the server
OnlineRequest ==
  /\ client.asked > 0
  /\ client' = After([client EXCEPT !.asked = @ - 1,
                                    !.answers = @ \cup {getOnlineUsers(connections)}],
                     "online", 0, 0, "-")
  /\ UNCHANGED srv

\* the response of GET /online reaches the page
OnlineResponse(onlineUsers) ==
  /\ onlineUsers \in client.answers
  /\ client' = After(setOnlineUsers([client EXCEPT !.answers = @ \ {onlineUsers}],
                                    SeqToSet(onlineUsers)),
                     "online-response", 0, 0, "-")
  /\ UNCHANGED srv

\* A and B open streams and B's streams close, while the page of A receives
\* what the server sends it.
NextSync ==
  \/ \E tok \in 1..nextTok : SyncEvents(tok)
  \/ \E l \in listeners : SyncClose(l)
  \/ Receive
  \/ OnlineRequest
  \/ \E a \in client.answers : OnlineResponse(a)

SpecSync == Init /\ [][NextSync]_vars

\* ---------------------------------------------------------- properties
\* how often a run tried to write user-status(userId, isOnline) to transport r
StatusWrites(S, r, userId, isOnline) ==
  Cardinality({i \in 1..Len(S.written[r]) :
                 S.written[r][i].frame = UserStatusFrame(userId, isOnline)})

\* the transports of the connections of S other than userId's
OthersOf(S, userId) ==
  {S.conns[i].response : i \in {j \in 1..Len(S.conns) : S.conns[j].userId # userId}}

EntriesOf(conns, userId) == {i \in 1..Len(conns) : conns[i].userId = userId}

\* the user a stream request with session token tok is for (NoUser: 401)
Presenter(tok) == getSession(tok).session.userId

Age(userId) == now - MapGet(connections, userId).lastSeen

NextTransport == nextRes + 1

\* C1: after any sequence of admissions, removals, pushes, heartbeat
\* failures, close/error events and sweeps the registry holds at most one
\* Connection per user id.
C1_OneConnectionPerUser ==
  \A i, j \in 1..Len(connections) :
    connections[i].userId = connections[j].userId => i = j

\* two streams of one user were accepted, and both users are registered
C1_Witness ==
  /\ Len(connections) = 2
  /\ \E l1, l2 \in listeners : l1.userId = l2.userId /\ l1.res # l2.res

\* C2: a stream request for a user whose connection is younger than the
\* grace window ends the new transport and returns false; the registry, the
\* other transports and the existing connection's lastSeen are unchanged,
\* nothing is written, no heartbeat or close handler is registered, and the
\* user has exactly one connection afterwards.
C2_DuplicateIsRejected ==
  /\ nextRes < MaxTransports =>
       \A tok \in Tokens, f \in SUBSET (Registered \cup {NextTransport}) :
         LET u == Presenter(tok)
             run == EventsRun(tok, f)
         IN  (u # NoUser /\ MapHas(connections, u) /\ Age(u) < GRACE_MS)
             => /\ run.ret = FALSE
                /\ run.st.ended = ended \cup {NextTransport}
                /\ run.st.conns = connections
                /\ run.st.written = NoWrites
                /\ ~run.started
  /\ (last.op = "events" /\ last.ret = "rejected")
     => /\ last.res \in ended
        /\ \A c \in heartbeats \cup listeners : c.res # last.res
        /\ Cardinality(EntriesOf(connections, last.userId)) = 1
        /\ MapGet(connections, last.userId).response # last.res

C2_Witness ==
  /\ last.op = "events" /\ last.ret = "rejected"
  /\ Len(connections) = 2

\* C3: a stream request for a user whose connection is at least
\* as old as the grace window ends the old transport, registers the new one,
\* returns true and broadcasts no user-status(u, online).
C3_ReplaceIsSilent ==
  nextRes < MaxTransports =>
    \A tok \in Tokens, f \in SUBSET (Registered \cup {NextTransport}) :
      LET u == Presenter(tok)
          added == addConnection(Start, u, NextTransport, f)
      IN  (u # NoUser /\ MapHas(connections, u) /\ Age(u) >= GRACE_MS)
          => /\ added.ret = TRUE
             /\ MapGet(connections, u).response \in added.st.ended
             /\ MapGet(added.st.conns, u).response = NextTransport
             /\ \A r \in Transports : StatusWrites(added.st, r, u, TRUE) = 0

\* C4: a stream request for a user with no connection inserts one with the
\* new transport, returns true, and writes user-status(u, online) once to
\* every other registered connection and never to the new transport.
C4_InsertBroadcasts ==
  /\ nextRes < MaxTransports =>
       \A tok \in Tokens, f \in SUBSET (Registered \cup {NextTransport}) :
         LET u == Presenter(tok)
             added == addConnection(Start, u, NextTransport, f)
         IN  (u # NoUser /\ ~MapHas(connections, u))
             => /\ added.ret = TRUE
                /\ added.st.ended = ended
                /\ added.st.conns =
                     Append(connections, [userId |-> u, response |-> NextTransport,
                                          lastSeen |-> now])
                /\ \A r \in Transports :
                     /\ StatusWrites(added.st, r, u, TRUE) =
                          IF r \in Registered THEN 1 ELSE 0
                     /\ Len(added.st.written[r]) = IF r \in Registered THEN 1 ELSE 0
  /\ (last.op = "events" /\ last.ret = "inserted")
     => /\ MapGet(connections, last.userId).response = last.res
        /\ last.res \notin ended

C4_Witness ==
  /\ last.op = "events" /\ last.ret = "inserted"
  /\ Len(connections) = 3

\* a handler step that calls removeConnection(u)
RemovalOf(u) ==
  \/ last'.op \in {"close", "error"} /\ last'.userId = u
  \/ last'.op = "heartbeat" /\ last'.ret = "failed" /\ last'.userId = u
  \/ last'.op = "typing" /\ last'.ret = "failed" /\ last'.userId = u
  \/ last'.op = "sweep" /\ now - MapGet(connections, u).lastSeen > CLEANUP_TIMEOUT_MS

\* C5: isUserOnline(u) is false right after removeConnection(u), true right
\* after any addConnection(u, t), accepted or rejected as a duplicate, and
\* stays true until a removal of u (remove, write failure, close or sweep).
C5_OnlineUntilRemoved ==
  [][/\ (last'.op \in {"close", "error"} \/ (last'.op = "heartbeat" /\ last'.ret = "failed"))
          => ~MapHas(connections', last'.userId)
     /\ (last'.op = "events" /\ last'.ret \in {"rejected", "replaced", "inserted"})
          => MapHas(connections', last'.userId)
     /\ \A u \in Users :
          (isUserOnline(u) /\ ~isUserOnline(u)') => RemovalOf(u)]_vars

\* a sweep removed a connection and another user stays online
C5_Witness ==
  /\ last.op = "sweep" /\ last.ret = "swept"
  /\ Len(connections) = 1

\* C6: removeConnection(u) for a connected u ends u's transport, deletes the
\* entry and writes user-status(u, offline) once, and nothing else, to every
\* remaining connection; for an absent u it changes and writes nothing.
C6_RemoveEffects ==
  /\ \A u \in Users, f \in Failing :
       LET S == removeConnection(Start, u, f)
       IN  IF MapHas(connections, u)
             THEN /\ S.ended = ended \cup {MapGet(connections, u).response}
                  /\ S.conns = SelectSeq(connections, LAMBDA c : c.userId # u)
                  /\ \A r \in Transports :
                       /\ StatusWrites(S, r, u, FALSE) =
                            IF r \in OthersOf(Start, u) THEN 1 ELSE 0
                       /\ Len(S.written[r]) = IF r \in OthersOf(Start, u) THEN 1 ELSE 0
             ELSE S = Start
  /\ (last.op = "close" /\ last.ret = "removed") => ~isUserOnline(last.userId)

C6_Witness ==
  /\ last.op = "close" /\ last.ret = "removed"
  /\ Len(connections) = 2

\* C7: a second removeConnection(u) right after the first leaves the
\* registry, the ended transports and every transport's writes as the first
\* call left them.
C7_RemoveTwice ==
  \A u \in Users, f \in Failing :
    LET S1 == removeConnection(Start, u, f)
        S2 == removeConnection(S1, u, f)
    IN  /\ S2.conns = S1.conns
        /\ S2.ended = S1.ended
        /\ \A r \in Transports : S2.written[r] = S1.written[r]

\* a close event found its user already removed while others are connected
C7_Witness ==
  /\ last.op = "close" /\ last.ret = "absent"
  /\ Len(connections) = 2

\* C8: when the heartbeat write to A's transport fails, A is offline
\* afterwards, user-status(A, offline) was written once to every other
\* connection if A was registered, and the removeConnection(A) of the close
\* event that follows changes and writes nothing.
C8_HeartbeatFailure ==
  /\ \A h \in heartbeats : \A f \in SUBSET (Registered \cup {h.res}) :
       LET run == HeartbeatRun(h, f)
           S2 == removeConnection(run.st, h.userId, f)
       IN  h.res \in f
           => /\ ~run.ok
              /\ ~MapHas(run.st.conns, h.userId)
              /\ \A r \in Transports :
                   StatusWrites(S2, r, h.userId, FALSE) =
                     IF MapHas(connections, h.userId) /\ r \in OthersOf(Start, h.userId)
                       THEN 1 ELSE 0
              /\ S2 = run.st
  /\ (last.op = "heartbeat" /\ last.ret = "failed")
     => /\ ~isUserOnline(last.userId)
        /\ \A c \in heartbeats : c.res # last.res

C8_Witness ==
  /\ last.op = "heartbeat" /\ last.ret = "failed"
  /\ Len(connections) = 2

\* C9: a successful heartbeat refreshes the connection's lastSeen, so the
\* sweep that follows a successful heartbeat on a connection's transport
\* does not remove that connection.
C9_HeartbeatKeepsAlive ==
  [][(/\ last.op = "heartbeat" /\ last.ret = "ok"
      /\ isUserOnline(last.userId)
      /\ MapGet(connections, last.userId).response = last.res
      /\ last'.op = "sweep")
     => isUserOnline(last.userId)']_vars

\* C10: sendToUser(u, ..) on a connected u whose write fails leaves the
\* registry and the ended transports as removeConnection(u) does, with
\* user-status(u, offline) written once to every remaining connection, and
\* returns false; on a successful write it returns true and the online users
\* are the same.
C10_SendToUser ==
  /\ \A u \in Users : \A f \in PushFailing(u), b \in BOOLEAN :
       LET sent == sendToUser(Start, u, TypingFrame("C", b), f)
           removed == removeConnection(Start, u, f)
           t == MapGet(connections, u).response
       IN  MapHas(connections, u)
           => IF t \in f
                THEN /\ sent.ret = FALSE
                     /\ ~MapHas(sent.st.conns, u)
                     /\ t \in sent.st.ended
                     /\ sent.st.conns = removed.conns
                     /\ sent.st.ended = removed.ended
                     /\ \A r \in Transports :
                          StatusWrites(sent.st, r, u, FALSE) =
                            IF r \in OthersOf(Start, u) THEN 1 ELSE 0
                ELSE /\ sent.ret = TRUE
                     /\ getOnlineUsers(sent.st.conns) = getOnlineUsers(connections)
                     /\ sent.st.ended = ended
  /\ (last.op = "typing" /\ last.ret = "failed") => ~isUserOnline(last.userId)
  /\ (last.op = "typing" /\ last.ret = "sent") => isUserOnline(last.userId)

C10_Witness ==
  /\ last.op = "typing" /\ last.ret = "failed"
  /\ Len(connections) = 2

\* the transports registered after a run
RegisteredIn(S) == {S.conns[i].response : i \in 1..Len(S.conns)}

\* how many entries of a run's writes on transport r carry an event of `events`
EventWrites(S, r, events) ==
  Cardinality({i \in 1..Len(S.written[r]) : S.written[r][i].frame.event \in events})

Pushed == {"typing", "new-message", "message-sent"}

\* C11: sendToUser for a user with no connection returns false and leaves
\* the registry and every transport as they were; a send writes its event to
\* at most one transport, at most once; and a stream opened later is written
\* no event that was sent before (nothing is queued).
C11_SendToAbsentUser ==
  /\ \A u \in Users, f \in Failing, b \in BOOLEAN :
       ~MapHas(connections, u)
       => sendToUser(Start, u, TypingFrame("C", b), f) = [st |-> Start, ret |-> FALSE]
  /\ \A u \in Users : \A f \in PushFailing(u) :
       LET S == sendToUser(Start, u, TypingFrame("C", TRUE), f).st
       IN  /\ Cardinality({r \in Transports : EventWrites(S, r, Pushed) > 0}) <= 1
           /\ \A r \in Transports : EventWrites(S, r, Pushed) <= 1
  /\ nextRes < MaxTransports =>
       \A tok \in Tokens, f \in SUBSET (Registered \cup {NextTransport}) :
         EventWrites(EventsRun(tok, f).st, NextTransport, Pushed) = 0

\* a typing event was sent to a user who is not connected while two others are
C11_Witness ==
  /\ last.op = "typing" /\ last.ret = "offline"
  /\ Len(connections) = 2

\* C12: with A and B both admitted, notifyTyping(A, B, true) writes one
\* typing event with senderId = A and isTyping = true to B's transport and
\* nothing to any other transport.
C12_TypingReachesRecipientOnly ==
  \A a \in Users, b \in Users :
    (a # b /\ MapHas(connections, a) /\ MapHas(connections, b))
    => LET S == notifyTyping(Start, a, b, TRUE, {})
           t == MapGet(connections, b).response
       IN  /\ S.written[t] = <<[frame |-> TypingFrame(a, TRUE), ok |-> TRUE]>>
           /\ \A r \in Transports \ {t} : S.written[r] = <<>>

C12_Witness ==
  /\ last.op = "typing" /\ last.ret = "sent"
  /\ Len(connections) = 3

\* every registered connection whose transport threw during the run has been
\* removed, its transport ended and its offline status written to those left
FailedPeersRemoved(S) ==
  \A i \in 1..Len(connections) :
    connections[i].response \in Thrown(S)
    => /\ ~MapHas(S.conns, connections[i].userId)
       /\ connections[i].response \in S.ended
       /\ \A r \in RegisteredIn(S) :
            StatusWrites(S, r, connections[i].userId, FALSE) = 1

\* C13: whatever handler runs, a registered connection whose transport
\* write fails, also when the write is a presence broadcast to it, is removed
\* from the registry and its offline status is broadcast.
C13_WriteFailureRemovesPeer ==
  /\ \A u \in Users, f \in Failing :
       FailedPeersRemoved(removeConnection(Start, u, f))
  /\ \A u \in Users : \A f \in PushFailing(u) :
       FailedPeersRemoved(notifyTyping(Start, "C", u, TRUE, f))
  /\ \A h \in heartbeats : \A f \in SUBSET (Registered \cup {h.res}) :
       FailedPeersRemoved(HeartbeatRun(h, f).st)
  /\ nextRes < MaxTransports =>
       \A tok \in Tokens, f \in SUBSET (Registered \cup {NextTransport}) :
         FailedPeersRemoved(EventsRun(tok, f).st)

\* C14: a presence broadcast for u attempts one write of the user-status
\* event on every connection other than u's, whichever of these writes
\* throw, and none on u's transport; it changes nothing else.
C14_BroadcastSurvivesFailures ==
  \A u \in Users, b \in BOOLEAN, f \in Failing :
    LET S == broadcastUserStatus(Start, u, b, f)
    IN  /\ S.conns = connections
        /\ S.ended = ended
        /\ \A r \in Transports :
             S.written[r] =
               IF r \in OthersOf(Start, u)
                 THEN <<[frame |-> UserStatusFrame(u, b), ok |-> r \notin f]>>
                 ELSE <<>>

\* an error event removed a user and two peers were left to be told
C14_Witness ==
  /\ last.op = "error" /\ last.ret = "removed"
  /\ Len(connections) = 2

Unexpired(tok) == tokens[tok] # NoSession /\ tokens[tok].expires >= now

\* what getSession answers in a state: the owner for an unexpired session,
\* null with the session evicted for an expired one, null for a token that
\* was never issued
ResolvesRight ==
  \A tok \in Tokens :
    /\ Unexpired(tok) => getSession(tok).session.userId = tokens[tok].userId
    /\ (tokens[tok] # NoSession /\ tokens[tok].expires < now)
         => /\ getSession(tok).session = NoSession
            /\ getSession(tok).tokens[tok] = NoSession
    /\ tok > nextTok
         => /\ tokens[tok] = NoSession
            /\ getSession(tok) = [session |-> NoSession, tokens |-> tokens]

\* C15: createSession(u) stores u with an expiry 5 minutes ahead under a
\* new token; no request, resolution or sweep alters a session before its
\* expiry has passed; and getSession answers the stored user up to the
\* expiry, null with eviction after it, and null for a token never issued.
C15_SessionRoundTrip ==
  [][/\ last'.op = "session"
          => tokens'[nextTok'] = [userId |-> last'.userId,
                                  expires |-> now + SESSION_TTL_MS]
     /\ \A tok \in Tokens :
          (tokens[tok] # NoSession /\ tokens[tok].expires >= now')
          => tokens'[tok] = tokens[tok]
     /\ ResolvesRight']_vars

\* an expired session was refused while a later one still resolves
C15_Witness ==
  /\ last.op = "events" /\ last.ret = "401"
  /\ now > SESSION_TTL_MS
  /\ \E tok \in Tokens : Unexpired(tok)
  /\ \E tok \in 1..nextTok : tokens[tok] = NoSession

\* C16: getSession on an unexpired token returns the session and leaves the
\* token store as it was; a stream request with it is not refused for its
\* token, however often the token was used, and is accepted exactly when the
\* user has no connection younger than the grace window.
C16_ResolveDoesNotConsume ==
  \A tok \in Tokens :
    Unexpired(tok)
    => /\ getSession(tok) = [session |-> tokens[tok], tokens |-> tokens]
       /\ nextRes < MaxTransports =>
            \A f \in SUBSET (Registered \cup {NextTransport}) :
              LET run == EventsRun(tok, f)
                  u == tokens[tok].userId
              IN  /\ run.status = 200
                  /\ run.tokens = tokens
                  /\ run.ret = ~(MapHas(connections, u) /\ Age(u) < GRACE_MS)

\* A's one token has opened a stream before and was presented again
C16_Witness ==
  /\ last.op = "events" /\ last.ret \in {"rejected", "replaced"}
  /\ last.userId = "A"
  /\ Unexpired(1)

\* C17: a stream request whose token is missing, unknown or expired gets
\* 401; the registry and the ended transports are as before, nothing is
\* written and no heartbeat or close handler is registered.
C17_BadTokenIsRefused ==
  \A tok \in 0..MaxTokens, f \in SUBSET (Registered \cup {NextTransport}) :
    (tok = 0 \/ ~Unexpired(tok))
    => LET run == EventsRun(tok, f)
       IN  /\ run.status = 401
           /\ run.st = Start
           /\ ~run.started

\* an expired token was refused while both users are streaming
C17_Witness ==
  /\ last.op = "events" /\ last.ret = "401"
  /\ \E tok \in Tokens : tokens[tok] = NoSession /\ tok <= nextTok
  /\ Len(connections) = 2

\* C18: on an accepted admission the new transport is written connected(u)
\* first and then one online-users snapshot listing the users registered at
\* that moment, the admitted one included, and nothing before or between
\* them; when the first write throws nothing reaches the transport.
C18_ConnectedThenSnapshot ==
  nextRes < MaxTransports =>
    \A tok \in Tokens, f \in SUBSET (Registered \cup {NextTransport}) :
      LET run == EventsRun(tok, f)
          u == Presenter(tok)
          w == run.st.written[NextTransport]
      IN  (run.status = 200 /\ run.ret)
          => IF NextTransport \in f
               THEN w = <<[frame |-> ConnectedFrame(u), ok |-> FALSE]>>
               ELSE /\ Len(w) = 2
                    /\ w[1] = [frame |-> ConnectedFrame(u), ok |-> TRUE]
                    /\ w[2].ok
                    /\ w[2].frame.event = "online-users"
                    /\ LET users == w[2].frame.data.users
                       IN  /\ {users[i] : i \in 1..Len(users)} =
                                {connections[i].userId : i \in 1..Len(connections)} \cup {u}
                           /\ \A i, j \in 1..Len(users) : users[i] = users[j] => i = j

\* a replacing stream was admitted and started while the other user streams
C18_Witness ==
  /\ last.op = "events" /\ last.ret = "replaced"
  /\ \E l \in listeners : l.res = last.res
  /\ Len(connections) = 2

\* C19: a well-formed typing request is answered with success whether the
\* recipient is connected, not connected, or its transport throws; the typing
\* event is written once to the recipient's transport if the recipient is
\* connected, and to no transport otherwise.
C19_TypingAlwaysSucceeds ==
  \A a \in Users, b \in Users, isTyping \in BOOLEAN : \A f \in PushFailing(b) :
    LET run == TypingRun(a, b, isTyping, f)
    IN  /\ run.response = "success"
        /\ \A r \in Transports :
             EventWrites(run.st, r, {"typing"}) =
               IF MapHas(connections, b) /\ r = MapGet(connections, b).response
                 THEN 1 ELSE 0

\* a typing request for a user who is not connected was answered
C19_Witness ==
  /\ last.op = "typing" /\ last.ret = "offline"
  /\ Len(connections) = 1

\* C20: a message to another user is answered 201 with the stored record
\* whether sender and recipient are connected, not connected or their
\* transports throw; when both are connected one new-message write is made on
\* the recipient's transport and one message-sent write on the sender's, and
\* these are all the writes when none throws.
C20_MessageIndependentOfPush ==
  \A a \in Users, b \in Users, f \in Failing :
    a # b
    => LET run == PostMessageRun(a, b, f)
           ta == MapGet(connections, a).response
           tb == MapGet(connections, b).response
       IN  /\ run.status = 201
           /\ run.data = "msg"
           /\ (MapHas(connections, a) /\ MapHas(connections, b))
              => /\ \A r \in Transports :
                      /\ EventWrites(run.st, r, {"new-message"}) = IF r = tb THEN 1 ELSE 0
                      /\ EventWrites(run.st, r, {"message-sent"}) = IF r = ta THEN 1 ELSE 0
                 /\ f = {}
                    => \A r \in Transports :
                         run.st.written[r] =
                           IF r = tb THEN <<[frame |-> NewMessageFrame(a), ok |-> TRUE]>>
                           ELSE IF r = ta THEN <<[frame |-> MessageSentFrame, ok |-> TRUE]>>
                           ELSE <<>>

\* a message between two connected users was answered and both stay connected
C20_Witness ==
  /\ last.op = "message" /\ last.ret = "both"
  /\ Len(connections) = 2

\* ---------------------------------------------------------------- C21
\* the attempts of the page that are in flight (session request pending or
\* stream not yet open) or hold a live stream
Active(c) == {f.id : f \in c.fetches} \cup {s.id : s \in Live(c)}

\* C21: at any time the page has at most one connection attempt in flight
\* and at most one live transport, and never an attempt in flight next to an
\* open transport (a connect call while Connecting or Open starts nothing).
C21_OneAttemptOneTransport == Cardinality(Active(client)) <= 1

\* ---------------------------------------------------------------- C22
\* C22: a transport error on the page's stream while the credentials are
\* valid sets a reconnect timer, and when that timer fires with the
\* credentials still valid a new connection attempt starts.
C22_ErrorLeadsToReconnect ==
  /\ client.ran.op = "onerror" => \E t \in client.timers : t.id = client.ran.id
  /\ (client.ran.op = "timeout" /\ client.ran.by = "onerror" /\ client.token)
       => client.ran.ret = "started"

\* ---------------------------------------------------------------- C23
\* C23: the reconnect delay set after the n-th consecutive failure since the
\* last open stream is min(1000 * 2^(n-1), 30000) ms.
C23_DelayDoubles ==
  client.ran.op \in {"catch", "onerror"}
    => client.ran.delay = Min(BACKOFF_BASE_MS * Pow2(client.failures - 1), BACKOFF_CAP_MS)

\* ---------------------------------------------------------------- C24
\* C24: an explicit disconnect() leaves the page idle (no live transport, no
\* reconnect timer, not connecting), and no attempt started before the
\* disconnect holds a live transport afterwards.
C24_DisconnectLeavesIdle ==
  /\ client.ran.op = "disconnect"
       => Live(client) = {} /\ client.timers = {} /\ ~client.isConnectingRef
  /\ \A s \in Live(client) : s.id > client.cut

\* ---------------------------------------------------------------- C25
\* C25: while the page has no credentials it has no live transport.
C25_NoStreamWithoutCredentials == ~client.token => Live(client) = {}

\* ---------------------------------------------------------------- C26
\* C26: a failed handshake leaves the connecting flag cleared and exactly one
\* reconnect timer set; when a timer set by a failed handshake fires with
\* valid credentials, an attempt is in flight or a stream is live afterwards;
\* and the page is never at rest (no live stream, no attempt in flight, no
\* timer set) while it has credentials.
C26_HandshakeFailureRetries ==
  /\ client.ran.op = "catch"
       => ~client.isConnectingRef /\ Cardinality(client.timers) = 1
  /\ (client.ran.op = "timeout" /\ client.ran.by = "catch" /\ client.token)
       => Active(client) # {}
  /\ ~(client.token /\ Active(client) = {} /\ client.timers = {})

\* ---------------------------------------------------------------- C28
\* C28: after user-status(u, offline) the page shows u neither online nor
\* typing, and after the page's own stream fails it shows no peer online or
\* typing.
C28_IndicatorsFallBack ==
  /\ client.ran.op = "user-offline"
       => client.ran.by \notin client.onlineUsers \cup client.typing
  /\ client.ran.op = "onerror"
       => \A u \in Peers : StatusText(client, u) = "Offline"

\* ---------------------------------------------------------------- C27
\* C27: a connection that leaves the registry, by whatever path, has its
\* heartbeat timer cleared: every running heartbeat interval belongs to a
\* transport that is still registered, so no heartbeat is written for a
\* connection that is gone.
C27_TimersClearedOnExit == \A h \in heartbeats : h.res \in Registered

\* ---------------------------------------------------------------- C29
\* The events of a transport: its request's close and error events and a
\* failed write of its heartbeat.
StaleEventOps == {"close", "error"}

IsTransportEvent(run) ==
  run.op \in StaleEventOps \/ (run.op = "heartbeat" /\ run.ret = "failed")

\* C29: right after addConnection(u, t2) replaced u's transport t1, an event
\* of t1 (close, error, heartbeat failure) leaves u's connection on t2 in
\* the registry.
C29_StaleEventKeepsSuccessor ==
  [][(/\ last.op = "events" /\ last.ret = "replaced"
      /\ IsTransportEvent(last')
      /\ last'.userId = last.userId /\ last'.res # last.res)
       => /\ MapHas(connections', last.userId)
          /\ MapGet(connections', last.userId).response = last.res]_vars

\* ---------------------------------------------------------------- C30
\* C30: every transport handed to addConnection so far that is not a
\* registered one has been ended.
C30_NoOpenTransportOutside ==
  \A r \in 1..nextRes : r \notin Registered => r \in ended

\* One user's first stream was replaced by a second and a third was turned
\* away as a duplicate: two transports outside the registry, one inside.
C30_Witness ==
  /\ last.op = "events" /\ last.ret = "rejected"
  /\ nextRes = 3 /\ Len(connections) = 1
  /\ Registered = {2}
  /\ ended = {1, 3}

\* ---------------------------------------------------------------- C31
\* the entries of the registry a sweep at this instant finds stale
StaleEntries == {i \in 1..Len(connections) :
                   now - connections[i].lastSeen > CLEANUP_TIMEOUT_MS}

\* the stale entries whose removal is announced to entry j: those removed
\* while j is still registered
AnnouncedTo(j) ==
  {i \in StaleEntries : i # j /\ (j \in StaleEntries => i < j)}

\* C31: cleanupConnections removes exactly the connections older than the
\* 5-minute timeout, each as removeConnection does (its transport ended,
\* user-status(u, offline) written once to every connection registered at
\* that point), and leaves the other entries, their transports and their
\* lastSeen as they were.
C31_SweepRemovesExactlyStale ==
  \A f \in Failing :
    LET S == cleanupConnections(Start, f)
    IN  /\ S.conns = SelectSeq(connections,
                               LAMBDA c : now - c.lastSeen <= CLEANUP_TIMEOUT_MS)
        /\ S.ended = ended \cup {connections[i].response : i \in StaleEntries}
        /\ \A j \in 1..Len(connections) :
             LET r == connections[j].response
             IN  /\ Len(S.written[r]) = Cardinality(AnnouncedTo(j))
                 /\ \A i \in AnnouncedTo(j) :
                      StatusWrites(S, r, connections[i].userId, FALSE) = 1
        /\ \A r \in Transports \ Registered : S.written[r] = <<>>

\* a sweep removed one user's stale connection and kept another user's, whose
\* age was exactly one millisecond
C31_Witness ==
  /\ last.op = "sweep" /\ last.ret = "swept"
  /\ Len(connections) = 1
  /\ now = CLEANUP_TIMEOUT_MS + 1
  /\ connections[1].lastSeen = CLEANUP_TIMEOUT_MS
  /\ Cardinality(ended) = 1

\* ---------------------------------------------------------------- C32
\* C32: cleanupExpired removes every session whose expiry lies before the
\* current instant and no other, and right after the sweep every token still
\* in the store resolves to the user it was issued to.
C32_SweepExpired ==
  /\ \A tok \in Tokens :
       LET session == tokens[tok]
           swept == cleanupExpired(tokens)[tok]
       IN  /\ (session # NoSession /\ session.expires < now) => swept = NoSession
           /\ (session = NoSession \/ session.expires >= now) => swept = session
  /\ last.op = "sweep"
       => \A tok \in Tokens :
            tokens[tok] # NoSession
            => getSession(tok) = [session |-> tokens[tok], tokens |-> tokens]

\* after a sweep past the first sessions' expiry one issued session is gone
\* and a later one is still there
C32_Witness ==
  /\ last.op = "sweep"
  /\ now = SESSION_TTL_MS + 1
  /\ \E tok \in 1..nextTok : tokens[tok] = NoSession
  /\ \E tok \in 1..nextTok : tokens[tok] # NoSession /\ tokens[tok].expires > now

\* ---------------------------------------------------------------- C33
\* C33: when the page's stream opens, reconnectAttempts is reset to 0, and
\* the first error of a stream that had opened sets the base delay of
\* 1000 ms.
C33_OpenResetsBackoff ==
  [][/\ client'.ran.op = "onopen" => client'.reconnectAttempts = 0
     /\ (client'.ran.op = "onerror"
         /\ \E s \in Opened(client) : s.id = client'.ran.id)
          => client'.ran.delay = BACKOFF_BASE_MS]_vars

\* ---------------------------------------------------------------- C34
Tagged(frame) ==
  /\ frame.data.type = frame.event
  /\ "timestamp" \in DOMAIN frame.data

\* the handler runs that can be taken in this state
HandlerRuns ==
  {EventsRun(tok, {}).st : tok \in IF nextRes < MaxTransports THEN 0..MaxTokens ELSE {0}}
    \cup {HeartbeatRun(h, {}).st : h \in heartbeats}
    \cup {TypingRun("C", r, b, {}).st : r \in Users, b \in BOOLEAN}
    \cup {PostMessageRun(s, r, {}).st : s \in Users, r \in Users}
    \cup {removeConnection(Start, u, {}) : u \in Users}

\* C34: every event a handler writes to a stream (connected, online-users,
\* user-status, new-message, message-sent, typing, heartbeat) has a type tag
\* equal to its event name and a timestamp field.
C34_EventsAreTagged ==
  \A S \in HandlerRuns : \A r \in Transports : \A i \in 1..Len(S.written[r]) :
    Tagged(S.written[r][i].frame)

\* ---------------------------------------------------------------- C35
\* everything the server sent the page has been delivered
Delivered ==
  /\ client.transport \in Registered
  /\ client.inbox = <<>>
  /\ client.asked = 0
  /\ client.answers = {}

\* C35: once every frame of the page's stream and every response to its
\* GET /online has been delivered, the page's online set is the set of users
\* connected to the server.
C35_OnlineSetConverges ==
  Delivered => client.onlineUsers = SeqToSet(getOnlineUsers(connections))

C37_OneReconnectTimer ==
  /\ Cardinality(client.timers) <= 1
  /\ \A t \in client.timers : client.reconnectTimeoutRef = t.id
  /\ client.ran.op = "disconnect" => client.timers = {}

\* ---------------------------------------------------------------- C38
\* C38: when the logged-in user changes while a stream exists, every stream
\* of the previous user is closed and the stream the controller holds
\* afterwards, if any, belongs to a handshake of the new user.
C38_UserChangeDropsStream ==
  [][(client'.ran.op = "switch" /\ client.eventSourceRef # 0)
       => /\ \A s \in Live(client)' : s.user = client'.user
          /\ \A s \in client.sources : s.id = client.eventSourceRef
                => s.id # client'.eventSourceRef]_vars

\* ---------------------------------------------------------------- C39
\* C39: an event whose payload cannot be decoded invokes no callback and
\* leaves the controller as it was (the stream stays open, no reconnect
\* timer is set), so the events after it are dispatched as before.
C39_UndecodableEventIgnored ==
  [][client'.ran.op = "undecodable" => [client' EXCEPT !.ran = client.ran] = client]_vars

TypeOK ==
  /\ nextRes \in 0..MaxTransports
  /\ ended \subseteq 1..nextRes
  /\ Registered \subseteq 1..nextRes
  /\ client.calls \in 0..MaxCalls
  /\ client.eventSourceRef \in 0..client.calls
  /\ client.reconnectTimeoutRef \in 0..client.calls
  /\ \A t \in client.timers : t.delay \in BACKOFF_BASE_MS..BACKOFF_CAP_MS
  /\ client.onlineUsers \cup client.typing \subseteq Users

====
